---- MODULE Spec2Model ----
(***************************************************************************)
(* Model of src/app.py: the boundary-aware text splitter                   *)
(* (LogicalTextSplitter) and the part of RAGSystem that stores its chunks. *)
(*                                                                         *)
(* A Python str is a sequence of one-character strings.  Each method is    *)
(* modelled by the body of its loop (an operator), by the fold of that     *)
(* body (the method as a function) and by actions that run the loop one    *)
(* iteration at a time.                                                    *)
(***************************************************************************)
EXTENDS Integers, Sequences, FiniteSets, TLC

VARIABLES
    splitter,   \* the LogicalTextSplitter's fields: chunk_size, chunk_overlap
    para,       \* one run of _split_by_paragraphs
    sent,       \* one run of _split_into_sentences
    chk,        \* one run of _chunk_paragraph
    calls,      \* concurrent split_text calls on the shared splitter
    doc,        \* RAGSystem.process_document and the documents collection
    chroma      \* RAGSystem._init_chromadb: the client, the collection, events

vars == <<splitter, para, sent, chk, calls, doc, chroma>>

Idle == [pc |-> "idle"]

(***************************************************************************)
(* Bounds of the model.                                                    *)
(***************************************************************************)
MaxTokens == 4
MaxSentWords == 4
MaxWords == 4
MaxChunkSize == 6
MaxOverlap == 4
MaxParas == 2
MaxDocParas == 2
MaxUploads == 1

(***************************************************************************)
(* Strings.                                                                *)
(***************************************************************************)
SetMax(S) == CHOOSE x \in S : \A y \in S : y <= x
SetMin(S) == CHOOSE x \in S : \A y \in S : x <= y

\* str.isspace for the characters of the model
IsSpace(c) == c \in {" ", "\n"}

LowerCase ==
    {"a", "b", "c", "d", "e", "f", "g", "h", "i", "j", "k", "l", "m",
     "n", "o", "p", "q", "r", "s", "t", "u", "v", "w", "x", "y", "z"}

\* str.islower of one character
IsLower(c) == c \in LowerCase

Rep(c, n) == [i \in 1..n |-> c]

\* str.strip()
Strip(s) ==
    LET nz == {i \in 1..Len(s) : ~IsSpace(s[i])}
    IN  IF nz = {} THEN <<>> ELSE SubSeq(s, SetMin(nz), SetMax(nz))

\* str.rstrip()
RStrip(s) ==
    LET nz == {i \in 1..Len(s) : ~IsSpace(s[i])}
    IN  IF nz = {} THEN <<>> ELSE SubSeq(s, 1, SetMax(nz))

\* str.endswith(suffix)
EndsWith(s, suffix) ==
    /\ Len(suffix) <= Len(s)
    /\ SubSeq(s, Len(s) - Len(suffix) + 1, Len(s)) = suffix

RECURSIVE NormFrom(_, _)
NormFrom(s, i) ==
    IF i > Len(s) THEN <<>>
    ELSE IF IsSpace(s[i])
         THEN IF i > 1 /\ IsSpace(s[i - 1])
              THEN NormFrom(s, i + 1)
              ELSE <<" ">> \o NormFrom(s, i + 1)
         ELSE <<s[i]>> \o NormFrom(s, i + 1)

\* re.sub(r'\s+', ' ', s): every maximal run of whitespace becomes one space
NormalizeWs(s) == NormFrom(s, 1)

\* the last index of the maximal whitespace run that starts at p
WsRunEnd(s, p) ==
    SetMax({e \in p..Len(s) : \A j \in p..e : IsSpace(s[j])})

\* where a match of \n\s*\n that starts at p ends (0: no match at p); \s* is
\* greedy, so the match runs to the last newline of the whitespace run
SepEnd(s, p) ==
    IF s[p] # "\n" THEN 0
    ELSE LET nls == {q \in (p + 1)..WsRunEnd(s, p) : s[q] = "\n"}
         IN  IF nls = {} THEN 0 ELSE SetMax(nls)

RECURSIVE ReSplitFrom(_, _, _)
ReSplitFrom(s, start, p) ==
    IF p > Len(s) THEN <<SubSeq(s, start, Len(s))>>
    ELSE IF SepEnd(s, p) > 0
         THEN <<SubSeq(s, start, p - 1)>>
                  \o ReSplitFrom(s, SepEnd(s, p) + 1, SepEnd(s, p) + 1)
         ELSE ReSplitFrom(s, start, p + 1)

\* re.split(r'\n\s*\n', s)
ReSplitBlankLines(s) == ReSplitFrom(s, 1, 1)

RECURSIVE JoinWith(_, _)
\* sep.join(parts)
JoinWith(parts, sep) ==
    IF parts = <<>> THEN <<>>
    ELSE IF Len(parts) = 1 THEN parts[1]
    ELSE parts[1] \o sep \o JoinWith(Tail(parts), sep)

JoinSp(parts) == JoinWith(parts, <<" ">>)

RECURSIVE Flatten(_)
Flatten(seqs) ==
    IF seqs = <<>> THEN <<>> ELSE seqs[1] \o Flatten(Tail(seqs))

(***************************************************************************)
(* LogicalTextSplitter._split_by_paragraphs                                *)
(***************************************************************************)
MinParaLen == 20

\* whether the loop body keeps a candidate paragraph (line 132)
ParaKeepsGe(p) == p # <<>> /\ Len(p) >= MinParaLen
ParaKeeps(p) == p # <<>> /\ Len(p) > MinParaLen

\* one iteration of the for loop, lines 130-134, and the same loop body
\* without the test of line 132
ParaLoopBodyUnfiltered(cleaned, cand) ==
    Append(cleaned, NormalizeWs(Strip(cand)))
ParaLoopBody(cleaned, cand) ==
    LET p == Strip(cand)
    IN  IF ParaKeeps(p) THEN Append(cleaned, NormalizeWs(p)) ELSE cleaned

\* the candidates the loop runs over, line 127
ParaCandidates(text) == ReSplitBlankLines(Strip(text))

RECURSIVE ParaFold(_, _)
ParaFold(cleaned, cands) ==
    IF cands = <<>> THEN cleaned
    ELSE ParaFold(ParaLoopBody(cleaned, cands[1]), Tail(cands))

\* _split_by_paragraphs as a function of its input
SplitByParagraphs(text) == ParaFold(<<>>, ParaCandidates(text))

\* Input texts: up to MaxTokens pieces, each a word or a run of whitespace.
ParaTokens ==
    {Rep("a", 9), Rep("a", 10), Rep("a", 20), Rep("a", 21),
     <<" ">>, <<" ", " ">>, <<"\n">>, <<"\n", "\n">>}

ParaTexts ==
    {Flatten(ts) : ts \in UNION {[1..n -> ParaTokens] : n \in 0..MaxTokens}}

ParaInit ==
    /\ para \in {[pc |-> "start", text |-> t, cands |-> <<>>, i |-> 1,
                  cleaned |-> <<>>, kept |-> <<>>, resplit |-> <<>>]
                 : t \in ParaTexts}
    /\ splitter = Idle /\ sent = Idle /\ chk = Idle /\ calls = Idle /\ doc = Idle
    /\ chroma = Idle

\* line 127
ParaSplit ==
    /\ para.pc = "start"
    /\ para' = [para EXCEPT !.pc = "loop", !.cands = ParaCandidates(para.text)]
    /\ UNCHANGED <<splitter, sent, chk, calls, doc, chroma>>

\* lines 130-134; kept records whether the candidate was appended
ParaLoop ==
    /\ para.pc = "loop"
    /\ para.i <= Len(para.cands)
    /\ LET next == ParaLoopBody(para.cleaned, para.cands[para.i])
       IN  para' = [para EXCEPT !.cleaned = next,
                                !.kept = Append(@, next # para.cleaned),
                                !.i = @ + 1]
    /\ UNCHANGED <<splitter, sent, chk, calls, doc, chroma>>

\* line 136
ParaReturn ==
    /\ para.pc = "loop"
    /\ para.i > Len(para.cands)
    /\ para' = [para EXCEPT !.pc = "done"]
    /\ UNCHANGED <<splitter, sent, chk, calls, doc, chroma>>

\* the returned paragraphs, rejoined with blank lines, are split again
ParaResplit ==
    /\ para.pc = "done"
    /\ para' = [para EXCEPT
                  !.pc = "resplit",
                  !.resplit = SplitByParagraphs(
                                  JoinWith(para.cleaned, <<"\n", "\n">>))]
    /\ UNCHANGED <<splitter, sent, chk, calls, doc, chroma>>

ParaNext ==
    ParaSplit \/ ParaLoop \/ ParaReturn \/ ParaResplit

SpecPara == ParaInit /\ [][ParaNext]_vars

(***************************************************************************)
(* Claims about _split_by_paragraphs (checked under SpecPara).             *)
(***************************************************************************)
\* the trimmed length of the i-th candidate paragraph
TrimmedLen(i) == Len(Strip(para.cands[i]))

\* how many of the first i candidates were appended
KeptUpTo(i) == Cardinality({j \in 1..i : para.kept[j]})

\* C4 as stated: a candidate paragraph is kept if and only if its trimmed
\* length is at least 20 characters.
C4_KeptIffAtLeast20 ==
    \A i \in 1..Len(para.kept) : para.kept[i] <=> TrimmedLen(i) >= 20

\* C4 as amended: a candidate paragraph is kept if and only if its trimmed
\* length is more than 20 characters (21 or more), and the kept ones are the
\* output, whitespace-normalized, in source order.
C4_KeptIffMoreThan20 ==
    /\ \A i \in 1..Len(para.kept) : para.kept[i] <=> TrimmedLen(i) >= 21
    /\ Len(para.cleaned) = KeptUpTo(Len(para.kept))
    /\ \A i \in 1..Len(para.kept) :
          para.kept[i] =>
              para.cleaned[KeptUpTo(i)] = NormalizeWs(Strip(para.cands[i]))

\* a finished run that met a candidate of trimmed length 20 (dropped) and one
\* of trimmed length 21 (kept)
C4_Witness ==
    /\ para.pc = "done"
    /\ \E i, j \in 1..Len(para.kept) :
          /\ TrimmedLen(i) = 20 /\ ~para.kept[i]
          /\ TrimmedLen(j) = 21 /\ para.kept[j]

\* C5: paragraph splitting is idempotent: the returned paragraphs, rejoined
\* with blank lines and split again, come back unchanged.
C5_ResplitIdempotent ==
    para.pc = "resplit" => para.resplit = para.cleaned

(***************************************************************************)
(* LogicalTextSplitter._split_into_sentences                               *)
(***************************************************************************)
\* self.abbreviations, lines 106-110
Abbreviations ==
    {
     <<"D", "r", ".">>, <<"M", "r", ".">>, <<"M", "r", "s", ".">>,
     <<"M", "s", ".">>, <<"P", "r", "o", "f", ".">>, <<"v", "s", ".">>,
     <<"e", "t", "c", ".">>, <<"i", ".", "e", ".">>, <<"e", ".", "g", ".">>,
     <<"c", "f", ".">>, <<"a", "l", ".">>, <<"I", "n", "c", ".">>,
     <<"L", "t", "d", ".">>, <<"C", "o", "r", "p", ".">>, <<"S", "t", ".">>,
     <<"A", "v", "e", ".">>, <<"B", "l", "v", "d", ".">>, <<"D", "e", "p", "t", ".">>,
     <<"F", "i", "g", ".">>, <<"V", "o", "l", ".">>, <<"N", "o", ".">>
    }

RECURSIVE SplitWsFrom(_, _)
SplitWsFrom(s, p) ==
    LET rest == {i \in p..Len(s) : ~IsSpace(s[i])}
    IN  IF rest = {} THEN <<>>
        ELSE LET b == SetMin(rest)
                 e == SetMax({k \in b..Len(s) :
                                 \A j \in b..k : ~IsSpace(s[j])})
             IN  <<SubSeq(s, b, e)>> \o SplitWsFrom(s, e + 1)

\* str.split(): the maximal runs of non-whitespace characters
SplitWs(s) == SplitWsFrom(s, 1)

\* the characters that can end a sentence for the tokenizer
SentenceEnd == {".", "!", "?"}

\* the places where nltk.sent_tokenize may break a word sequence: after a word
\* that ends in sentence-ending punctuation and is followed by another word
BreakPlaces(words) ==
    {k \in 1..(Len(words) - 1) : words[k][Len(words[k])] \in SentenceEnd}

RECURSIVE Runs(_, _, _)
\* the sentences of a word sequence broken after the places of breaks
Runs(words, breaks, start) ==
    IF start > Len(words) THEN <<>>
    ELSE LET e == SetMin({k \in breaks : k >= start} \cup {Len(words)})
         IN  <<JoinSp(SubSeq(words, start, e))>> \o Runs(words, breaks, e + 1)

\* every result nltk.sent_tokenize (line 140) can give for a whitespace-
\* normalized text of these words: the tokenizer decides which of the places
\* after sentence-ending punctuation are sentence boundaries
Tokenizations(words) ==
    {Runs(words, breaks, 1) : breaks \in SUBSET BreakPlaces(words)}

\* the tokenizer that breaks at every such place
SentTokenize(text) ==
    LET words == SplitWs(text) IN Runs(words, BreakPlaces(words), 1)

\* line 152: the test the code makes for "ends with an abbreviation"
EndsWithAbbreviation(s) ==
    /\ SplitWs(s) # <<>>
    /\ \E abbrev \in Abbreviations : EndsWith(RStrip(s), abbrev)

\* lines 150-154: whether sentences[i + 1] is merged into sentences[i]
SentMerges(sentences, i) ==
    /\ i < Len(sentences)
    /\ EndsWithAbbreviation(sentences[i])
    /\ LET next_sentence == Strip(sentences[i + 1])
       IN  next_sentence # <<>> /\ IsLower(next_sentence[1])

\* The loop body of lines 146-159 without the "i += 1" of line 156, and the
\* same body with the merge repeated while the combined sentence still ends
\* with an abbreviation.
SentLoopBodyNoSkip(st, sentences) ==
    LET i == st.i
        merges == SentMerges(sentences, i)
        current_sentence ==
            IF merges
            THEN sentences[i] \o <<" ">> \o Strip(sentences[i + 1])
            ELSE sentences[i]
        last == IF merges THEN i + 1 ELSE i
    IN  [st EXCEPT !.processed = Append(@, Strip(current_sentence)),
                   !.spans = Append(@, <<i, last>>),
                   !.i = i + 1]

RECURSIVE Absorb(_, _, _)
Absorb(sentences, current_sentence, last) ==
    IF /\ last < Len(sentences)
       /\ EndsWithAbbreviation(current_sentence)
       /\ LET next_sentence == Strip(sentences[last + 1])
          IN  next_sentence # <<>> /\ IsLower(next_sentence[1])
    THEN Absorb(sentences,
                current_sentence \o <<" ">> \o Strip(sentences[last + 1]),
                last + 1)
    ELSE <<current_sentence, last>>

SentLoopBodyChained(st, sentences) ==
    LET merged == Absorb(sentences, sentences[st.i], st.i)
    IN  [st EXCEPT !.processed = Append(@, Strip(merged[1])),
                   !.spans = Append(@, <<st.i, merged[2]>>),
                   !.i = merged[2] + 1]

\* one iteration of the while loop, lines 146-159; spans records, for each
\* appended sentence, the first and last base sentence it was made of
SentLoopBody(st, sentences) ==
    LET i == st.i
        merges == SentMerges(sentences, i)
        current_sentence ==
            IF merges
            THEN sentences[i] \o <<" ">> \o Strip(sentences[i + 1])
            ELSE sentences[i]
        last == IF merges THEN i + 1 ELSE i
    IN  [st EXCEPT !.processed = Append(@, Strip(current_sentence)),
                   !.spans = Append(@, <<i, last>>),
                   !.i = last + 1]

RECURSIVE SentFold(_, _)
SentFold(st, sentences) ==
    IF st.i > Len(sentences) THEN st
    ELSE SentFold(SentLoopBody(st, sentences), sentences)

\* line 161
NonEmpty(seq) == SelectSeq(seq, LAMBDA x : x # <<>>)

SentStart == [i |-> 1, processed |-> <<>>, spans |-> <<>>]

\* _split_into_sentences, given the tokenizer's result
SplitIntoSentences(sentences) ==
    NonEmpty(SentFold(SentStart, sentences).processed)

SentWords ==
    {<<"D", "r", ".">>, <<"f", "i", "n", "a", "l", ".">>, <<"o", "k", ".">>,
     <<"h", "e">>, <<"H", "e">>}

SentInputs ==
    UNION {Tokenizations(ws) :
             ws \in UNION {[1..n -> SentWords] : n \in 0..MaxSentWords}}

SentInit ==
    /\ sent \in {[pc |-> "loop", sentences |-> b, i |-> 1,
                  processed |-> <<>>, spans |-> <<>>, result |-> <<>>]
                 : b \in SentInputs}
    /\ splitter = Idle /\ para = Idle /\ chk = Idle /\ calls = Idle /\ doc = Idle
    /\ chroma = Idle

\* lines 146-159, one iteration
SentLoop ==
    /\ sent.pc = "loop"
    /\ sent.i <= Len(sent.sentences)
    /\ \E st \in {SentLoopBody([i |-> sent.i, processed |-> sent.processed,
                                 spans |-> sent.spans], sent.sentences)} :
          sent' = [sent EXCEPT !.i = st.i, !.processed = st.processed,
                               !.spans = st.spans]
    /\ UNCHANGED <<splitter, para, chk, calls, doc, chroma>>

\* line 161
SentReturn ==
    /\ sent.pc = "loop"
    /\ sent.i > Len(sent.sentences)
    /\ sent' = [sent EXCEPT !.pc = "done", !.result = NonEmpty(sent.processed)]
    /\ UNCHANGED <<splitter, para, chk, calls, doc, chroma>>

SentNext ==
    SentLoop \/ SentReturn

SpecSent == SentInit /\ [][SentNext]_vars

(***************************************************************************)
(* Claims about _split_into_sentences (checked under SpecSent).            *)
(***************************************************************************)
\* the trailing token of a sentence (its last whitespace-separated word)
TrailingToken(s) == LET words == SplitWs(s) IN words[Len(words)]

\* C6: the sentence after the current one is merged into it if and only if
\* the current sentence's trailing token is a known abbreviation, a next
\* sentence exists and that sentence starts with a lowercase character.
C6_MergeIffAbbreviationToken ==
    \A k \in 1..Len(sent.spans) :
        LET i == sent.spans[k][1]
        IN  (sent.spans[k][2] = i + 1) <=>
                /\ i < Len(sent.sentences)
                /\ TrailingToken(sent.sentences[i]) \in Abbreviations
                /\ IsLower(sent.sentences[i + 1][1])

\* the trimmed base sentences first..last, those that are not empty
TrimmedBase(first, last) ==
    NonEmpty([j \in 1..(last - first + 1) |->
                 Strip(sent.sentences[first + j - 1])])

\* the base sentences the loop has passed
Scanned == IF sent.pc = "done" THEN Len(sent.sentences) ELSE sent.i - 1

\* C13: _split_into_sentences preserves content and order: every base
\* sentence the loop has passed is in exactly one output sentence, its own
\* or the one of its immediate predecessor, in source order, and the
\* space-joined output equals the space-joined trimmed non-empty base
\* sentences.
C13_ContentAndOrderPreserved ==
    /\ \A j \in 1..Scanned :
          /\ Cardinality({k \in 1..Len(sent.spans) :
                 sent.spans[k][1] <= j /\ j <= sent.spans[k][2]}) = 1
          /\ \E k \in 1..Len(sent.spans) :
                 sent.spans[k][1] \in {j, j - 1} /\ sent.spans[k][2] >= j
    /\ \A k \in 1..Len(sent.spans) :
          /\ sent.spans[k][2] <= Scanned
          /\ k > 1 => sent.spans[k - 1][2] < sent.spans[k][1]
          /\ sent.processed[k] =
                 JoinSp(TrimmedBase(sent.spans[k][1], sent.spans[k][2]))
    /\ JoinSp(NonEmpty(sent.processed)) = JoinSp(TrimmedBase(1, Scanned))
    /\ sent.pc = "done" =>
           JoinSp(sent.result) = JoinSp(TrimmedBase(1, Len(sent.sentences)))

\* the call has returned and merged at least one sentence into another
C13_Witness ==
    /\ sent.pc = "done"
    /\ \E k \in 1..Len(sent.spans) : sent.spans[k][2] = sent.spans[k][1] + 1
    /\ Len(sent.result) >= 2

\* output sentence k absorbed the base sentence after its own
Merged(k) == sent.spans[k][2] # sent.spans[k][1]

\* C14: the abbreviation merge is not chained: every output sentence is made
\* of one base sentence or of two consecutive ones, the scan resumes at the
\* sentence after the absorbed one, and an absorbed sentence is never the
\* current sentence of an iteration.
C14_MergeNotChained ==
    /\ \A k \in 1..Len(sent.spans) :
          /\ sent.spans[k][2] \in {sent.spans[k][1], sent.spans[k][1] + 1}
          /\ sent.spans[k][1] = IF k = 1 THEN 1 ELSE sent.spans[k - 1][2] + 1
          /\ Merged(k) =>
                 /\ sent.processed[k] =
                        Strip(sent.sentences[sent.spans[k][1]] \o <<" ">>
                              \o Strip(sent.sentences[sent.spans[k][2]]))
                 /\ \A n \in 1..Len(sent.spans) :
                        sent.spans[n][1] # sent.spans[k][2]
    /\ sent.pc = "loop" =>
           sent.i = IF sent.spans = <<>> THEN 1
                    ELSE sent.spans[Len(sent.spans)][2] + 1

\* a merge produced a sentence that again ends with an abbreviation and is
\* followed by a sentence starting in lowercase, which became the current
\* sentence of the next iteration
C14_Witness ==
    /\ Len(sent.spans) >= 2
    /\ Merged(1)
    /\ EndsWithAbbreviation(sent.processed[1])
    /\ IsLower(sent.sentences[3][1])
    /\ sent.spans[2][1] = 3

(***************************************************************************)
(* LogicalTextSplitter._chunk_paragraph                                    *)
(***************************************************************************)
\* line 165
FastPath(paragraph, chunk_size) == Len(paragraph) <= chunk_size

\* line 166, and what "return paragraph" would hand to all_chunks.extend
FastPathChars(paragraph) == [i \in 1..Len(paragraph) |-> <<paragraph[i]>>]
FastPathResult(paragraph) == <<paragraph>>

\* the walk of lines 183-189 with the parts joined without a space
RECURSIVE OverlapWalkNoSpace(_, _, _, _, _)
OverlapWalkNoSpace(current_sentences, k, overlap_text, overlap_chars, chunk_overlap) ==
    IF k = 0 THEN overlap_text
    ELSE LET prev_sentence == current_sentences[k]
         IN  IF overlap_chars + Len(prev_sentence) <= chunk_overlap
             THEN OverlapWalkNoSpace(current_sentences, k - 1,
                              IF overlap_text # <<>>
                              THEN prev_sentence \o overlap_text
                              ELSE prev_sentence,
                              overlap_chars + Len(prev_sentence),
                              chunk_overlap)
             ELSE overlap_text

RECURSIVE OverlapWalk(_, _, _, _, _)
\* lines 184-189: the walk over reversed(current_sentences), at element k
OverlapWalk(current_sentences, k, overlap_text, overlap_chars, chunk_overlap) ==
    IF k = 0 THEN overlap_text
    ELSE LET prev_sentence == current_sentences[k]
         IN  IF overlap_chars + Len(prev_sentence) <= chunk_overlap
             THEN OverlapWalk(current_sentences, k - 1,
                              IF overlap_text # <<>>
                              THEN prev_sentence \o <<" ">> \o overlap_text
                              ELSE prev_sentence,
                              overlap_chars + Len(prev_sentence),
                              chunk_overlap)
             ELSE overlap_text

\* lines 181-189
OverlapText(current_sentences, chunk_overlap) ==
    OverlapWalk(current_sentences, Len(current_sentences), <<>>, 0,
                chunk_overlap)

\* line 174
PotentialChunk(current_chunk, sentence) ==
    IF current_chunk # <<>> THEN current_chunk \o <<" ">> \o sentence
    ELSE sentence

\* line 176, and the same test without "and current_chunk"
SealsAnyChunk(current_chunk, sentence, chunk_size) ==
    Len(PotentialChunk(current_chunk, sentence)) > chunk_size
Seals(current_chunk, sentence, chunk_size) ==
    /\ Len(PotentialChunk(current_chunk, sentence)) > chunk_size
    /\ current_chunk # <<>>

\* One iteration of the for loop, lines 173-198.  seeds and runs record, for
\* each chunk begun so far, the overlap text it was seeded with and the
\* sentences put into it after that.
ChunkLoopBody(st, sentence, chunk_size, chunk_overlap) ==
    IF Seals(st.current_chunk, sentence, chunk_size)
    THEN LET overlap_text ==
                 IF chunk_overlap > 0 /\ st.current_sentences # <<>>
                 THEN OverlapText(st.current_sentences, chunk_overlap)
                 ELSE <<>>
         IN  [chunks |-> Append(st.chunks, Strip(st.current_chunk)),
              current_chunk |->
                  IF overlap_text # <<>>
                  THEN overlap_text \o <<" ">> \o sentence
                  ELSE sentence,
              current_sentences |->
                  IF overlap_text = <<>>
                  THEN <<sentence>>
                  ELSE SplitWs(overlap_text) \o <<sentence>>,
              seeds |-> Append(st.seeds, overlap_text),
              runs |-> Append(st.runs, <<sentence>>)]
    ELSE [st EXCEPT
            !.current_chunk = PotentialChunk(st.current_chunk, sentence),
            !.current_sentences = Append(@, sentence),
            !.runs[Len(st.runs)] = Append(@, sentence)]

\* lines 200-203, and the same without the final append
ChunkFinishNoFlush(st) == st.chunks
ChunkFinish(st) ==
    IF st.current_chunk # <<>>
    THEN Append(st.chunks, Strip(st.current_chunk))
    ELSE st.chunks

\* lines 169-171
ChunkStart ==
    [chunks |-> <<>>, current_chunk |-> <<>>, current_sentences |-> <<>>,
     seeds |-> << <<>> >>, runs |-> << <<>> >>]

RECURSIVE ChunkFold(_, _, _, _)
ChunkFold(st, sentences, chunk_size, chunk_overlap) ==
    IF sentences = <<>> THEN st
    ELSE ChunkFold(ChunkLoopBody(st, sentences[1], chunk_size, chunk_overlap),
                   Tail(sentences), chunk_size, chunk_overlap)

\* _chunk_paragraph as a function, with the tokenizer that breaks everywhere
ChunkParagraph(paragraph, chunk_size, chunk_overlap) ==
    IF FastPath(paragraph, chunk_size) THEN FastPathResult(paragraph)
    ELSE ChunkFinish(ChunkFold(ChunkStart,
                               SplitIntoSentences(SentTokenize(paragraph)),
                               chunk_size, chunk_overlap))

ChunkWords == {<<"a">>, <<"b", ".">>, <<"a", "l", ".">>}

ChunkWordSeqs == UNION {[1..n -> ChunkWords] : n \in 1..MaxWords}

\* a paragraph (whitespace-normalized, as split_text passes it) with a result
\* of the tokenizer for it, and the splitter's two tunables
ChunkInit ==
    /\ splitter \in [chunk_size : 1..MaxChunkSize,
                     chunk_overlap : 0..MaxOverlap]
    /\ \E ws \in ChunkWordSeqs : \E b \in Tokenizations(ws) :
          chk = [pc |-> "start", paragraph |-> JoinSp(ws), base |-> b,
                 sentences |-> <<>>, k |-> 1] @@ ChunkStart
    /\ para = Idle /\ sent = Idle /\ calls = Idle /\ doc = Idle
    /\ chroma = Idle

ChunkState ==
    [chunks |-> chk.chunks, current_chunk |-> chk.current_chunk,
     current_sentences |-> chk.current_sentences,
     seeds |-> chk.seeds, runs |-> chk.runs]

\* the loop's bookkeeping without the advance to the next sentence
ChunkUpdateSameSentence(st) ==
    [chk EXCEPT !.chunks = st.chunks, !.current_chunk = st.current_chunk,
                !.current_sentences = st.current_sentences,
                !.seeds = st.seeds, !.runs = st.runs]

ChunkUpdate(st) ==
    [chk EXCEPT !.chunks = st.chunks, !.current_chunk = st.current_chunk,
                !.current_sentences = st.current_sentences,
                !.seeds = st.seeds, !.runs = st.runs, !.k = @ + 1]

\* lines 165-166
ChunkFast ==
    /\ chk.pc = "start"
    /\ FastPath(chk.paragraph, splitter.chunk_size)
    /\ chk' = [chk EXCEPT !.pc = "done",
                          !.chunks = FastPathResult(chk.paragraph)]
    /\ UNCHANGED <<splitter, para, sent, calls, doc, chroma>>

\* lines 168-171
ChunkSlow ==
    /\ chk.pc = "start"
    /\ ~FastPath(chk.paragraph, splitter.chunk_size)
    /\ chk' = [chk EXCEPT !.pc = "loop",
                          !.sentences = SplitIntoSentences(chk.base)]
    /\ UNCHANGED <<splitter, para, sent, calls, doc, chroma>>

\* lines 176-195: the sentence does not fit, the accumulator is sealed
ChunkSeal ==
    /\ chk.pc = "loop"
    /\ chk.k <= Len(chk.sentences)
    /\ Seals(chk.current_chunk, chk.sentences[chk.k], splitter.chunk_size)
    /\ \E st \in {ChunkLoopBody(ChunkState, chk.sentences[chk.k],
                                splitter.chunk_size, splitter.chunk_overlap)} :
          chk' = ChunkUpdate(st)
    /\ UNCHANGED <<splitter, para, sent, calls, doc, chroma>>

\* lines 196-198: the sentence joins the accumulator
ChunkAppend ==
    /\ chk.pc = "loop"
    /\ chk.k <= Len(chk.sentences)
    /\ ~Seals(chk.current_chunk, chk.sentences[chk.k], splitter.chunk_size)
    /\ \E st \in {ChunkLoopBody(ChunkState, chk.sentences[chk.k],
                                splitter.chunk_size, splitter.chunk_overlap)} :
          chk' = ChunkUpdate(st)
    /\ UNCHANGED <<splitter, para, sent, calls, doc, chroma>>

\* lines 200-203
ChunkReturn ==
    /\ chk.pc = "loop"
    /\ chk.k > Len(chk.sentences)
    /\ chk' = [chk EXCEPT !.pc = "done", !.chunks = ChunkFinish(ChunkState)]
    /\ UNCHANGED <<splitter, para, sent, calls, doc, chroma>>

ChunkNext ==
    ChunkFast \/ ChunkSlow \/ ChunkSeal \/ ChunkAppend \/ ChunkReturn

SpecChunk == ChunkInit /\ [][ChunkNext]_vars

\* a splitter on which _chunk_paragraph has not been called yet
ChunkRunInit ==
    /\ splitter \in [chunk_size : 1..MaxChunkSize,
                     chunk_overlap : 0..MaxOverlap]
    /\ chk = Idle
    /\ para = Idle /\ sent = Idle /\ calls = Idle /\ doc = Idle
    /\ chroma = Idle

\* the calls of _chunk_paragraph: a paragraph and the tokenizer's result for
\* it, at the entry of the method
ChunkCalls ==
    UNION {{[pc |-> "start", paragraph |-> JoinSp(ws), base |-> b,
             sentences |-> <<>>, k |-> 1] @@ ChunkStart
            : b \in Tokenizations(ws)} : ws \in ChunkWordSeqs}

\* line 163, the call
ChunkCall ==
    /\ chk.pc = "idle"
    /\ chk' \in ChunkCalls
    /\ UNCHANGED <<splitter, para, sent, calls, doc, chroma>>

\* line 168, the call of _split_into_sentences
ChunkCallSentences ==
    /\ chk.pc = "start"
    /\ ~FastPath(chk.paragraph, splitter.chunk_size)
    /\ chk' = [chk EXCEPT !.pc = "sentences"]
    /\ sent' = [pc |-> "loop", sentences |-> chk.base, i |-> 1,
                processed |-> <<>>, spans |-> <<>>, result |-> <<>>]
    /\ UNCHANGED <<splitter, para, calls, doc, chroma>>

\* lines 168-171, _split_into_sentences has returned
ChunkGotSentences ==
    /\ chk.pc = "sentences"
    /\ sent.pc = "done"
    /\ chk' = [chk EXCEPT !.pc = "loop", !.sentences = sent.result]
    /\ UNCHANGED <<splitter, para, sent, calls, doc, chroma>>

\* _chunk_paragraph with the loop of _split_into_sentences run step by step;
\* the call is one thread of control that is always scheduled
ChunkRunNext ==
    \/ ChunkCall
    \/ ChunkFast
    \/ ChunkCallSentences
    \/ SentLoop
    \/ SentReturn
    \/ ChunkGotSentences
    \/ ChunkSeal
    \/ ChunkAppend
    \/ ChunkReturn

\* Weak fairness of the call's steps.  Every state before the return has a
\* next step (lines 165-203 have no blocking statement), so
\* ENABLED <<ChunkRunNext>>_vars is chk.pc # "done", and WF_vars(ChunkRunNext)
\* is written with that state predicate in the place of ENABLED.
ChunkRunFair == []<>(chk.pc = "done") \/ []<><<ChunkRunNext>>_vars

SpecChunkRun == ChunkRunInit /\ [][ChunkRunNext]_vars /\ ChunkRunFair

(***************************************************************************)
(* Claims about _chunk_paragraph (checked under SpecChunk).                *)
(***************************************************************************)
\* the places where s occurs in text
Occurrences(text, s) ==
    {p \in 1..(Len(text) - Len(s) + 1) : SubSeq(text, p, p + Len(s) - 1) = s}

Contains(text, s) == Occurrences(text, s) # {}

\* the chunks that hold s whole
ChunksWith(s) == {k \in 1..Len(chk.chunks) : Contains(chk.chunks[k], s)}

\* the run took the sentence-by-sentence path and has returned
SlowDone ==
    chk.pc = "done" /\ ~FastPath(chk.paragraph, splitter.chunk_size)

Oversized(j) == Len(chk.sentences[j]) > splitter.chunk_size

\* C1: every chunk is at most chunk_size long, unless it is exactly one
\* sentence that is itself longer than chunk_size.  Stated for the splitters
\* whose overlap is smaller than their chunk size, a part of the claim's
\* cases: a violation here is a violation of the claim.
C1_ChunkLengthBound ==
    splitter.chunk_overlap < splitter.chunk_size =>
        \A k \in 1..Len(chk.chunks) :
            \/ Len(chk.chunks[k]) <= splitter.chunk_size
            \/ \E j \in 1..Len(chk.sentences) :
                  chk.chunks[k] = chk.sentences[j] /\ Oversized(j)

\* C2: the overlap text seeding a chunk, joining spaces included, is at most
\* chunk_overlap characters long.  Stated, like C1, for the splitters whose
\* overlap is smaller than their chunk size.
C2_OverlapBound ==
    splitter.chunk_overlap < splitter.chunk_size =>
        \A k \in 1..Len(chk.seeds) :
            Len(chk.seeds[k]) <= splitter.chunk_overlap

\* C3: for a paragraph longer than chunk_size, every chunk is its overlap
\* prefix followed by a run of sentences, and the runs of all chunks, in
\* order, are exactly the sentence sequence of _split_into_sentences.
C3_Coverage ==
    SlowDone =>
        /\ Flatten(chk.runs) = chk.sentences
        /\ Len(chk.chunks) = Len(chk.runs)
        /\ \A k \in 1..Len(chk.chunks) :
              chk.chunks[k] =
                  IF chk.seeds[k] = <<>> THEN JoinSp(chk.runs[k])
                  ELSE chk.seeds[k] \o <<" ">> \o JoinSp(chk.runs[k])

\* a finished run of three or more sentences with a chunk that begins with
\* an overlap prefix
C3_Witness ==
    /\ SlowDone
    /\ Len(chk.sentences) >= 3
    /\ \E k \in 2..Len(chk.chunks) : chk.seeds[k] # <<>>

\* C7: a paragraph no longer than chunk_size comes back as exactly one
\* chunk, the paragraph itself.
C7_FastPathExact ==
    (chk.pc = "done" /\ Len(chk.paragraph) <= splitter.chunk_size)
        => chk.chunks = <<chk.paragraph>>

\* a returned fast-path run on a paragraph the tokenizer splits into
\* several sentences, with a positive overlap
C7_Witness ==
    /\ chk.pc = "done"
    /\ Len(chk.paragraph) <= splitter.chunk_size
    /\ Len(chk.base) >= 2
    /\ splitter.chunk_overlap > 0

RECURSIVE RunEnd(_)
RunEnd(k) == IF k = 0 THEN 0 ELSE RunEnd(k - 1) + Len(chk.runs[k])

\* the texts made of whole sentences that end where chunk k ends
WholeSentenceTails(k) ==
    {JoinSp(SubSeq(chk.sentences, a, RunEnd(k))) : a \in 1..RunEnd(k)}

\* C12: the overlap that seeds chunk k+1 is made of whole sentences of chunk
\* k (the last ones, in order), so no overlap begins in the middle of a
\* sentence; also when chunk k itself began with an overlap prefix.
C12_OverlapOfWholeSentences ==
    splitter.chunk_overlap < splitter.chunk_size =>
        \A k \in 1..(Len(chk.seeds) - 1) :
            chk.seeds[k + 1] # <<>> =>
                chk.seeds[k + 1] \in WholeSentenceTails(k)

StartsWith(s, prefix) ==
    Len(prefix) <= Len(s) /\ SubSeq(s, 1, Len(prefix)) = prefix

\* the text of chunk k: sealed, or still the accumulator
ChunkText(k) ==
    IF k <= Len(chk.chunks) THEN chk.chunks[k] ELSE chk.current_chunk

\* C15: whenever chunk k is sealed and chunk k+1 is seeded with an overlap,
\* that overlap text is a character-for-character suffix of chunk k and a
\* prefix of chunk k+1, followed there by one space and the sentence that
\* triggered the seal.
C15_OverlapIsSuffixAndPrefix ==
    chk.pc \in {"loop", "done"} =>
        \A k \in 1..(Len(chk.seeds) - 1) :
            chk.seeds[k + 1] # <<>> =>
                /\ k <= Len(chk.chunks)
                /\ EndsWith(chk.chunks[k], chk.seeds[k + 1])
                /\ StartsWith(ChunkText(k + 1),
                              chk.seeds[k + 1] \o <<" ">> \o chk.runs[k + 1][1])

\* the call has returned three chunks or more, and a chunk that began with
\* an overlap was sealed and left an overlap of several parts
C15_Witness ==
    /\ chk.pc = "done"
    /\ Len(chk.chunks) >= 3
    /\ \E k \in 2..(Len(chk.seeds) - 1) :
          /\ chk.seeds[k] # <<>>
          /\ Len(SplitWs(chk.seeds[k + 1])) >= 2
          /\ chk.seeds[k + 1] # chk.chunks[k]

\* the sentences of the paragraph, whichever path the call takes
SentencesOf == IF chk.pc = "done" /\ FastPath(chk.paragraph, splitter.chunk_size)
               THEN SplitIntoSentences(chk.base) ELSE chk.sentences

\* every chunk emitted so far is non-empty and holds, after its overlap
\* prefix, a non-empty run of sentences that follows the runs of the chunks
\* before it
ChunksHoldNewSentences ==
    chk.pc # "idle" =>
    /\ \A k \in 1..Len(chk.chunks) :
          /\ chk.chunks[k] # <<>>
          /\ FastPath(chk.paragraph, splitter.chunk_size)
                 => chk.chunks[k] = chk.paragraph
          /\ ~FastPath(chk.paragraph, splitter.chunk_size) =>
                 /\ chk.runs[k] # <<>>
                 /\ chk.runs[k] =
                        SubSeq(chk.sentences, RunEnd(k - 1) + 1, RunEnd(k))
                 /\ EndsWith(chk.chunks[k], JoinSp(chk.runs[k]))
    /\ chk.pc = "loop" => Len(chk.chunks) <= chk.k - 1
    /\ Len(chk.chunks) <= Len(SentencesOf)

\* the guard of some step of the call holds: the tests of lines 165, 146 and
\* 176 and the for loop of line 173 each have a branch for either outcome
ChunkRunCanStep ==
    \/ chk.pc = "idle"
    \/ chk.pc = "start"
    \/ /\ chk.pc = "sentences"
       /\ \/ sent.pc = "loop"
          \/ sent.pc = "done"
    \/ /\ chk.pc = "loop"
       /\ chk.k <= Len(chk.sentences) + 1

\* C16: _split_into_sentences and _chunk_paragraph always terminate, every
\* chunk emitted is non-empty and contains at least one sentence that no
\* earlier chunk contained as a non-overlap sentence, and the number of
\* chunks never exceeds the number of sentences.
C16_TerminatesWithNewSentencePerChunk ==
    /\ <>(chk.pc = "done")
    /\ [](chk.pc # "done" => ChunkRunCanStep)
    /\ []ChunksHoldNewSentences

\* the call has returned as many chunks as the paragraph has sentences, three
\* or more, the later ones with an overlap prefix
C16_Witness ==
    /\ chk.pc = "done"
    /\ sent.pc = "done"
    /\ Len(chk.sentences) >= 3
    /\ Len(chk.chunks) = Len(chk.sentences)
    /\ \E k \in 2..Len(chk.seeds) : chk.seeds[k] # <<>>

(***************************************************************************)
(* LogicalTextSplitter.split_text, and concurrent calls of it              *)
(***************************************************************************)
RECURSIVE SplitTextFold(_, _, _, _)
\* lines 118-121
SplitTextFold(all_chunks, paragraphs, chunk_size, chunk_overlap) ==
    IF paragraphs = <<>> THEN all_chunks
    ELSE SplitTextFold(
             all_chunks \o ChunkParagraph(paragraphs[1], chunk_size, chunk_overlap),
             Tail(paragraphs), chunk_size, chunk_overlap)

\* split_text as a function of the text and the splitter's tunables
SplitText(text, chunk_size, chunk_overlap) ==
    SplitTextFold(<<>>, SplitByParagraphs(text), chunk_size, chunk_overlap)

\* the calls that run at the same time on one splitter
Calls == {1, 2}

\* Where call c keeps chunks, current_chunk and current_sentences: they are
\* local names of _chunk_paragraph (lines 169-171), one set per call; were
\* they attributes of self, every call would use the same set.
FrameOfSelf(c) == 1
Frame(c) == c

\* a sentence of n characters made of the letter ch and a full stop
Sen(ch, n) == Rep(ch, n - 1) \o <<".">>

ConcParagraphs ==
    {JoinSp(<<Sen("a", 8), Sen("B", 8), Sen("c", 8)>>),
     JoinSp(<<Rep("d", 12), Sen("E", 11)>>)}

\* texts with nothing but whitespace
BlankTexts == {<<>>, <<" ", "\n", "\n", " ">>}

ConcTexts ==
    BlankTexts \cup
    {JoinWith(ps, <<"\n", "\n">>) :
        ps \in UNION {[1..n -> ConcParagraphs] : n \in 1..MaxParas}}

\* a call about to start on text t; alone is what split_text returns for t
\* when nothing else runs, mid whether the call has taken a step while
\* another call was inside the sentence loop
CallStart(t, chunk_size, chunk_overlap) ==
    [pc |-> "start", text |-> t, paragraphs |-> <<>>, p |-> 1,
     sentences |-> <<>>, k |-> 1, acc |-> ChunkStart, all_chunks |-> <<>>,
     result |-> <<>>, mid |-> FALSE,
     alone |-> SplitText(t, chunk_size, chunk_overlap)]

ConcInit ==
    /\ splitter \in [chunk_size : {10, 30}, chunk_overlap : {0, 9}]
    /\ calls \in [Calls -> {CallStart(t, splitter.chunk_size,
                                      splitter.chunk_overlap) :
                               t \in ConcTexts}]
    /\ para = Idle /\ sent = Idle /\ chk = Idle /\ doc = Idle
    /\ chroma = Idle

\* some other call is inside _chunk_paragraph's loop
OtherInLoop(c) == \E o \in Calls \ {c} : calls[o].pc = "sentences"

\* calls with call c's own fields set from the record own and the
\* accumulators of its frame set to acc
CallsAfter(c, own, acc) ==
    [o \in Calls |->
        LET me == IF o = c
                  THEN [own EXCEPT !.mid = calls[c].mid \/ OtherInLoop(c)]
                  ELSE calls[o]
        IN  IF o = Frame(c) THEN [me EXCEPT !.acc = acc] ELSE me]

\* line 115
CallSplitParagraphs(c) ==
    /\ calls[c].pc = "start"
    /\ calls' = CallsAfter(c,
                    [calls[c] EXCEPT !.pc = "paragraphs",
                                     !.paragraphs = SplitByParagraphs(calls[c].text)],
                    calls[Frame(c)].acc)
    /\ UNCHANGED <<splitter, para, sent, chk, doc, chroma>>

\* lines 119-121 and 165-166: a paragraph that takes the fast path
CallFastParagraph(c) ==
    /\ calls[c].pc = "paragraphs"
    /\ calls[c].p <= Len(calls[c].paragraphs)
    /\ FastPath(calls[c].paragraphs[calls[c].p], splitter.chunk_size)
    /\ calls' = CallsAfter(c,
                    [calls[c] EXCEPT
                       !.all_chunks =
                           @ \o FastPathResult(calls[c].paragraphs[calls[c].p]),
                       !.p = @ + 1],
                    calls[Frame(c)].acc)
    /\ UNCHANGED <<splitter, para, sent, chk, doc, chroma>>

\* lines 119-120 and 168-171: a paragraph that enters the sentence loop
CallEnterParagraph(c) ==
    /\ calls[c].pc = "paragraphs"
    /\ calls[c].p <= Len(calls[c].paragraphs)
    /\ ~FastPath(calls[c].paragraphs[calls[c].p], splitter.chunk_size)
    /\ calls' = CallsAfter(c,
                    [calls[c] EXCEPT
                       !.pc = "sentences",
                       !.sentences = SplitIntoSentences(
                           SentTokenize(calls[c].paragraphs[calls[c].p])),
                       !.k = 1],
                    ChunkStart)
    /\ UNCHANGED <<splitter, para, sent, chk, doc, chroma>>

\* lines 173-198, one iteration
CallSentence(c) ==
    /\ calls[c].pc = "sentences"
    /\ calls[c].k <= Len(calls[c].sentences)
    /\ calls' = CallsAfter(c,
                    [calls[c] EXCEPT !.k = @ + 1],
                    ChunkLoopBody(calls[Frame(c)].acc,
                                  calls[c].sentences[calls[c].k],
                                  splitter.chunk_size, splitter.chunk_overlap))
    /\ UNCHANGED <<splitter, para, sent, chk, doc, chroma>>

\* lines 200-203 and 121
CallFinishParagraph(c) ==
    /\ calls[c].pc = "sentences"
    /\ calls[c].k > Len(calls[c].sentences)
    /\ calls' = CallsAfter(c,
                    [calls[c] EXCEPT
                       !.pc = "paragraphs",
                       !.all_chunks = @ \o ChunkFinish(calls[Frame(c)].acc),
                       !.p = @ + 1],
                    calls[Frame(c)].acc)
    /\ UNCHANGED <<splitter, para, sent, chk, doc, chroma>>

\* line 123
CallReturn(c) ==
    /\ calls[c].pc = "paragraphs"
    /\ calls[c].p > Len(calls[c].paragraphs)
    /\ calls' = CallsAfter(c,
                    [calls[c] EXCEPT !.pc = "done",
                                     !.result = calls[c].all_chunks],
                    calls[Frame(c)].acc)
    /\ UNCHANGED <<splitter, para, sent, chk, doc, chroma>>

ConcNext ==
    \E c \in Calls :
        \/ CallSplitParagraphs(c)
        \/ CallFastParagraph(c)
        \/ CallEnterParagraph(c)
        \/ CallSentence(c)
        \/ CallFinishParagraph(c)
        \/ CallReturn(c)

SpecConc == ConcInit /\ [][ConcNext]_vars

(***************************************************************************)
(* Claims about concurrent split_text calls (checked under SpecConc).      *)
(***************************************************************************)
\* C9: under every interleaving, each call returns the chunk sequence that
\* split_text returns for its text when it runs alone, and the splitter's
\* fields keep the values they were constructed with.
C9_CallsDoNotInterfere ==
    \A c \in Calls :
        calls[c].pc = "done" => calls[c].result = calls[c].alone

\* both calls have returned several chunks, of different texts, and each
\* took steps while the other was inside the sentence loop
C9_Witness ==
    /\ \A c \in Calls :
          calls[c].pc = "done" /\ calls[c].mid /\ Len(calls[c].result) >= 3
    /\ calls[1].text # calls[2].text
    /\ splitter.chunk_overlap > 0

\* a text that is empty or made of whitespace only
IsBlank(t) == \A k \in 1..Len(t) : IsSpace(t[k])

\* C11: for empty or whitespace-only text, _split_by_paragraphs returns no
\* paragraph and split_text returns no chunk; the call never enters the
\* sentence loop and, until it has returned, always has a next step.
C11_BlankTextGivesNothing ==
    \A c \in Calls :
        IsBlank(calls[c].text) =>
            /\ calls[c].paragraphs = <<>>
            /\ calls[c].all_chunks = <<>>
            /\ calls[c].pc \in {"start", "paragraphs", "done"}
            /\ calls[c].pc = "done" => calls[c].result = <<>>
            /\ calls[c].pc # "done" =>
                   ENABLED (CallSplitParagraphs(c) \/ CallReturn(c))

\* a call on the empty text and a call on a text of spaces and newlines have
\* both returned
C11_Witness ==
    /\ \A c \in Calls : calls[c].pc = "done"
    /\ calls[1].text = <<>>
    /\ calls[2].text # <<>> /\ IsBlank(calls[2].text)

(***************************************************************************)
(* RAGSystem.process_document: chunking a document and storing the chunks  *)
(***************************************************************************)
\* RAGSystem.__init__, lines 237-240: the splitter process_document uses
DocChunkSize == 1000
DocChunkOverlap == 100

Digits == <<"0", "1", "2", "3", "4", "5", "6", "7", "8", "9">>

RECURSIVE Decimal(_)
\* str(i) for i >= 0, as the f-string of line 381 formats it
Decimal(n) ==
    IF n < 10 THEN <<Digits[n + 1]>>
    ELSE Decimal(n \div 10) \o <<Digits[(n % 10) + 1]>>

\* line 381, and the same counting chunks from one
ChunkIdOneBased(filename, i) == filename \o <<"_">> \o Decimal(i + 1)
ChunkId(filename, i) == filename \o <<"_">> \o Decimal(i)

\* lines 383-393: what collection.add is given for chunk i (0-based) of
\* chunks; upload records which call of process_document made the record
DocRecord(filename, chunks, i, upload) ==
    [id |-> ChunkId(filename, i),
     document |-> chunks[i + 1],
     metadata |-> [filename |-> filename,
                   chunk_index |-> i,
                   total_chunks |-> Len(chunks),
                   chunk_size |-> Len(chunks[i + 1])],
     upload |-> upload]

\* collection.add of one record: an id the collection already holds is not
\* added again
CollectionAdd(collection, record) ==
    IF \E n \in 1..Len(collection) : collection[n].id = record.id
    THEN collection
    ELSE Append(collection, record)

DocFilenames ==
    {<<"a", ".", "t", "x", "t">>, <<"b", ".", "p", "d", "f">>}

DocParagraphs == {Rep("a", 21), Rep("b", 25), Rep("c", 5)}

\* the texts extract_text hands over: up to MaxDocParas paragraphs
DocTexts ==
    {JoinWith(ps, <<"\n", "\n">>) :
        ps \in UNION {[1..n -> DocParagraphs] : n \in 0..MaxDocParas}}

\* uploads records, for each call of process_document so far, its filename
\* and the chunks split_text returned to it
DocInit ==
    /\ splitter = [chunk_size |-> DocChunkSize,
                   chunk_overlap |-> DocChunkOverlap]
    /\ doc = [pc |-> "ready", filename |-> <<>>, text |-> <<>>,
              chunks |-> <<>>, i |-> 0, collection |-> <<>>,
              uploads |-> <<>>, status |-> "none"]
    /\ para = Idle /\ sent = Idle /\ chk = Idle /\ calls = Idle
    /\ chroma = Idle

\* lines 332-340: a call of process_document, with the text extracted
DocUpload ==
    /\ doc.pc = "ready"
    /\ Len(doc.uploads) < MaxUploads
    /\ \E f \in DocFilenames, t \in DocTexts :
          doc' = [doc EXCEPT !.pc = "extracted", !.filename = f, !.text = t,
                             !.chunks = <<>>, !.i = 0, !.status = "none",
                             !.uploads = Append(@, [filename |-> f,
                                                    chunks |-> <<>>])]
    /\ UNCHANGED <<splitter, para, sent, chk, calls, chroma>>

\* lines 341-346
DocNoText ==
    /\ doc.pc = "extracted"
    /\ Strip(doc.text) = <<>>
    /\ doc' = [doc EXCEPT !.pc = "ready", !.status = "error"]
    /\ UNCHANGED <<splitter, para, sent, chk, calls, chroma>>

\* lines 367-373: split_text returns no chunk
DocNoChunks ==
    /\ doc.pc = "extracted"
    /\ Strip(doc.text) # <<>>
    /\ SplitText(doc.text, splitter.chunk_size, splitter.chunk_overlap) = <<>>
    /\ doc' = [doc EXCEPT !.pc = "ready", !.status = "error"]
    /\ UNCHANGED <<splitter, para, sent, chk, calls, chroma>>

\* lines 367 and 375
DocSplit ==
    /\ doc.pc = "extracted"
    /\ Strip(doc.text) # <<>>
    /\ LET chunks == SplitText(doc.text, splitter.chunk_size,
                               splitter.chunk_overlap)
       IN  /\ chunks # <<>>
           /\ doc' = [doc EXCEPT !.pc = "loop", !.chunks = chunks, !.i = 0,
                                 !.uploads[Len(doc.uploads)].chunks = chunks]
    /\ UNCHANGED <<splitter, para, sent, chk, calls, chroma>>

\* lines 378-393: chunk i is embedded and added
DocAdd ==
    /\ doc.pc = "loop"
    /\ doc.i < Len(doc.chunks)
    /\ doc' = [doc EXCEPT
                 !.collection =
                     CollectionAdd(@, DocRecord(doc.filename, doc.chunks,
                                                doc.i, Len(doc.uploads))),
                 !.i = @ + 1]
    /\ UNCHANGED <<splitter, para, sent, chk, calls, chroma>>

\* lines 380, 383 and 394-396: get_embedding or collection.add raises, the
\* chunk is logged and skipped
DocChunkFails ==
    /\ doc.pc = "loop"
    /\ doc.i < Len(doc.chunks)
    /\ doc' = [doc EXCEPT !.i = @ + 1]
    /\ UNCHANGED <<splitter, para, sent, chk, calls, chroma>>

\* lines 398-406
DocReturn ==
    /\ doc.pc = "loop"
    /\ doc.i = Len(doc.chunks)
    /\ doc' = [doc EXCEPT !.pc = "ready", !.status = "success"]
    /\ UNCHANGED <<splitter, para, sent, chk, calls, chroma>>

DocNext ==
    \/ DocUpload \/ DocNoText \/ DocNoChunks \/ DocSplit
    \/ DocAdd \/ DocChunkFails \/ DocReturn

SpecDoc == DocInit /\ [][DocNext]_vars

(***************************************************************************)
(* Claims about process_document (checked under SpecDoc).                  *)
(***************************************************************************)
\* C10: every record in the collection has, for the call that added it with
\* split_text output out and for i its chunk's 0-based position in out, the
\* id "<filename>_<i>", chunk_index i, total_chunks Len(out) and chunk_size
\* the chunk's length; the records of one call are in ascending i and no two
\* of them share an id.
C10_RecordsFollowSplitOrder ==
    /\ \A n \in 1..Len(doc.collection) :
          LET r == doc.collection[n]
              i == r.metadata.chunk_index
              up == doc.uploads[r.upload]
          IN  /\ i \in 0..(Len(up.chunks) - 1)
              /\ r.document = up.chunks[i + 1]
              /\ r.id = up.filename \o <<"_">> \o Decimal(i)
              /\ r.metadata.filename = up.filename
              /\ r.metadata.total_chunks = Len(up.chunks)
              /\ r.metadata.chunk_size = Len(up.chunks[i + 1])
    /\ \A n, m \in 1..Len(doc.collection) :
          (n < m /\ doc.collection[n].upload = doc.collection[m].upload)
              => /\ doc.collection[n].metadata.chunk_index
                       < doc.collection[m].metadata.chunk_index
                 /\ doc.collection[n].id # doc.collection[m].id

\* a call has returned after adding two chunks of different lengths of one
\* document, the second of them at index 1 or later
C10_Witness ==
    /\ doc.pc = "ready" /\ doc.status = "success"
    /\ \E n, m \in 1..Len(doc.collection) :
          /\ n < m
          /\ doc.collection[n].upload = doc.collection[m].upload
          /\ doc.collection[n].metadata.chunk_size
                 # doc.collection[m].metadata.chunk_size

(***************************************************************************)
(* RAGSystem._init_chromadb                                                *)
(***************************************************************************)
\* line 261, range(3)
Attempts == 3

\* line 283, "if attempt < 2", and the same test against the number of
\* attempts
SleepsAfterEveryFailure(attempt) == attempt < Attempts
SleepsAfter(attempt) == attempt < 2

\* The calls of one attempt that can raise: the HttpClient constructor
\* (line 266), heartbeat (line 272), get_or_create_collection (line 274).
RemoteCalls == <<"client", "heartbeat", "collection">>

\* lines 232-233: no client and no collection before _init_chromadb runs.
\* n counts the iterations of the for loop begun, events is the history of
\* what the call did.
ChromaInit ==
    /\ chroma = [pc |-> "for", n |-> 0, attempt |-> 0, call |-> 1,
                 chroma_client |-> "None", collection |-> "None",
                 events |-> <<>>]
    /\ splitter = Idle /\ para = Idle /\ sent = Idle /\ chk = Idle
    /\ calls = Idle /\ doc = Idle

\* line 261: the next attempt begins
ChromaAttempt ==
    /\ chroma.pc = "for"
    /\ chroma.n < Attempts
    /\ chroma' = [chroma EXCEPT !.pc = "try", !.attempt = chroma.n,
                                !.n = @ + 1, !.call = 1,
                                !.events = Append(@, <<"attempt", chroma.n>>)]
    /\ UNCHANGED <<splitter, para, sent, chk, calls, doc>>

\* lines 266-277: the next remote call of the attempt succeeds
ChromaCallOk ==
    /\ chroma.pc = "try"
    /\ chroma' =
          [chroma EXCEPT
             !.chroma_client =
                 IF RemoteCalls[chroma.call] = "client" THEN "HttpClient" ELSE @,
             !.collection =
                 IF RemoteCalls[chroma.call] = "collection" THEN "remote" ELSE @,
             !.call = IF chroma.call < Len(RemoteCalls) THEN @ + 1 ELSE @,
             !.pc = IF chroma.call < Len(RemoteCalls) THEN "try" ELSE "returned",
             !.events = Append(@, <<"ok", RemoteCalls[chroma.call]>>)]
    /\ UNCHANGED <<splitter, para, sent, chk, calls, doc>>

\* lines 281-282: the next remote call of the attempt raises
ChromaCallRaises ==
    /\ chroma.pc = "try"
    /\ chroma' = [chroma EXCEPT
                    !.pc = "except",
                    !.events = Append(@, <<"raise", RemoteCalls[chroma.call]>>)]
    /\ UNCHANGED <<splitter, para, sent, chk, calls, doc>>

\* lines 283-284: the wait before the next attempt
ChromaSleep ==
    /\ chroma.pc = "except"
    /\ SleepsAfter(chroma.attempt)
    /\ chroma' = [chroma EXCEPT !.pc = "for",
                                !.events = Append(@, <<"sleep", chroma.attempt>>)]
    /\ UNCHANGED <<splitter, para, sent, chk, calls, doc>>

\* line 283, the test fails: no wait
ChromaNoSleep ==
    /\ chroma.pc = "except"
    /\ ~SleepsAfter(chroma.attempt)
    /\ chroma' = [chroma EXCEPT !.pc = "for"]
    /\ UNCHANGED <<splitter, para, sent, chk, calls, doc>>

\* lines 286-289: the loop is exhausted, the in-memory client is installed
ChromaFallback ==
    /\ chroma.pc = "for"
    /\ chroma.n >= Attempts
    /\ chroma' = [chroma EXCEPT !.pc = "returned",
                                !.chroma_client = "Client",
                                !.collection = "memory",
                                !.events = Append(@, <<"fallback", chroma.n>>)]
    /\ UNCHANGED <<splitter, para, sent, chk, calls, doc>>

ChromaNext ==
    \/ ChromaAttempt
    \/ ChromaCallOk
    \/ ChromaCallRaises
    \/ ChromaSleep
    \/ ChromaNoSleep
    \/ ChromaFallback

SpecChroma == ChromaInit /\ [][ChromaNext]_vars

(***************************************************************************)
(* Claims about _init_chromadb (checked under SpecChroma).                 *)
(***************************************************************************)
\* the places of the events of one kind
EventsOf(kind) ==
    {e \in 1..Len(chroma.events) : chroma.events[e][1] = kind}

\* the attempt begun at place e failed: a call raised before the next attempt
AttemptFailed(e) ==
    \E r \in EventsOf("raise") :
        /\ r > e
        /\ \A a \in EventsOf("attempt") : ~(e < a /\ a < r)

\* C17: _init_chromadb makes at most 3 connection attempts; it returns with
\* the remote client at the first attempt whose heartbeat and collection
\* creation succeed and makes no further attempt; the in-memory client is
\* installed only after all 3 attempts failed; and it waits only between
\* attempts, never after the third failure.
C17_ThreeAttemptsThenFallback ==
    LET ev == chroma.events
        last == Len(ev)
    IN  /\ Cardinality(EventsOf("attempt")) <= 3
        /\ \A e \in EventsOf("ok") :
               ev[e][2] = "collection" =>
                   /\ e = last
                   /\ chroma.pc = "returned"
                   /\ chroma.chroma_client = "HttpClient"
                   /\ chroma.collection = "remote"
                   /\ ev[e - 1] = <<"ok", "heartbeat">>
                   /\ \A a \in EventsOf("attempt") : a < e - 3 => AttemptFailed(a)
        /\ chroma.pc = "returned" /\ chroma.chroma_client = "HttpClient"
               => ev[last] = <<"ok", "collection">>
        /\ chroma.chroma_client = "Client" \/ chroma.collection = "memory" =>
               /\ Cardinality(EventsOf("attempt")) = 3
               /\ \A a \in EventsOf("attempt") : AttemptFailed(a)
               /\ ev[last] = <<"fallback", 3>>
        /\ \A e \in EventsOf("sleep") :
               /\ ev[e - 1][1] = "raise"
               /\ ev[e][2] < 2
               /\ e < last => ev[e + 1][1] = "attempt"
        /\ \A e \in EventsOf("raise") :
               e < last =>
                   ev[e + 1][1] = IF Cardinality({a \in EventsOf("attempt") : a < e}) < 3
                                  THEN "sleep" ELSE "fallback"

\* the third attempt is the first to succeed, after a wait following each of
\* the two failures
C17_Witness ==
    /\ chroma.pc = "returned"
    /\ chroma.chroma_client = "HttpClient"
    /\ Cardinality(EventsOf("attempt")) = 3
    /\ Cardinality(EventsOf("sleep")) = 2
    /\ Cardinality(EventsOf("raise")) = 2

====
